---- MODULE Spec2Model ----
(***************************************************************************)
(* Auction subsystem of the payment-link server (server.js): link          *)
(* creation, bid intake, auction summary, lazy finalization with winner    *)
(* follow-up link and e-mail, and checkout-session creation.               *)
(*                                                                         *)
(* The document store is the only shared state.  Every request runs as an  *)
(* independent unit of work whose steps are the store calls it awaits; the *)
(* synchronous code that follows an awaited call is part of the same step. *)
(* Time is counted in hours.  Store reads, the bid write and the auction   *)
(* update are taken to succeed; the two calls guarded by the try/catch of  *)
(* finalizeAuction (follow-up link write, e-mail send) may fail.           *)
(***************************************************************************)
EXTENDS Integers, Sequences, FiniteSets, TLC

\* ---------------------------------------------------------------- bounds
MaxBids == 2           \* bid documents per link
MaxAmount == 2         \* bid amounts 1..MaxAmount (and one above the default increment)
MaxTime == 1           \* hours the clock runs after the link was created
MaxStored == 11        \* bid documents of a collection the read handlers are applied to
MaxTokens == 2         \* magic-link tokens issued

\* ------------------------------------------------------ program constants
DefaultIncrement == 100    \* minIncrement_cents default
WinnerLinkHours == 48      \* follow-up link lifetime
RecentLimit == 10          \* bids listed by the summary
TokenMinutes == 15         \* lifetime of a magic-link token
MinutesPerHour == 60

\* ------------------------------------------------------------ input sets
Null == -1                                  \* null / undefined / absent field
Procs == {1, 2}                             \* request slots: two requests race
LinkIds == 1..4                             \* ids nanoid hands out in a run: the link, follow-ups, one unused
EndsAtChoices == {1}                        \* auction.endsAt in the request body
ProductIds == {1, 2}
ProductPrice == <<0, 2>>                    \* products/{id}.price_cents (0: no price set)
SellerOf == <<1, 1>>                        \* verified seller creating links for a product
Emails == {"Amy@x.io"}
Amounts == (1..MaxAmount) \cup {DefaultIncrement + 1}   \* amount_cents of a bid request
LifecycleAmounts == 1..MaxAmount            \* the amounts bid in the life-cycle specification
StartingPrices == {Null, 1}                 \* auction.startingPrice_cents in the request body
MinIncrements == {Null, 0, 1}               \* auction.minIncrement_cents in the request body
DigitalFileUrls == {"", "https://f.io/a"}   \* digitalFileUrl in the request body ("": absent)
SellerIds == {1, 2}                         \* the seller owning the products, and a new one
Tokens == 1..(MaxTokens + 1)                \* token of a verify request: issued, or unknown
DigitalProcs == {1}                         \* the slot used where requests do not race

ToLowerCase(e) == IF e = "Amy@x.io" THEN "amy@x.io" ELSE e

\* ---------------------------------------------------------------- values
NoWinner == [email |-> "", bidId |-> 0, amount_cents |-> 0]
NoBid == [bidId |-> 0, email |-> "", amount_cents |-> 0, createdAt |-> 0]
NoAuction == [enabled |-> FALSE, endsAt |-> Null, startingPrice_cents |-> 0,
              minIncrement_cents |-> 0, status |-> "none", winner |-> NoWinner]
\* digitalDownload: null, or the description of a file (fields absent: "")
NoDigital == [present |-> FALSE, storagePath |-> "", contentUrl |-> ""]
NoProduct == [digitalDownload |-> NoDigital]
NoLink == [linkId |-> 0, productId |-> 0, sellerId |-> 0, expiresAt |-> Null,
           digitalDownload |-> NoDigital, hasDigital |-> FALSE,
           auction |-> NoAuction, active |-> "unset"]
NoResp == [code |-> "", auction |-> NoAuction, minRequired_cents |-> 0, highest_cents |-> 0,
           bid |-> NoBid, count |-> 0, recent |-> <<>>, unit_amount |-> 0]
IdleProc == [pc |-> "idle", kind |-> "none", linkId |-> 0, email |-> "", amount |-> 0, late |-> FALSE,
             link |-> NoLink, highest |-> NoBid, winner |-> NoWinner,
             specMin |-> 0, basis |-> Null, newLinkId |-> 0,
             createdAt |-> 0, recent |-> <<>>, sawBids |-> FALSE, product |-> NoProduct]
NoneDone == [kind |-> "none", linkId |-> 0, amount |-> 0, late |-> FALSE, wrote |-> FALSE,
             specMin |-> 0, basis |-> Null, sawBids |-> FALSE, resp |-> NoResp]

\* emailTokens document, the locals of a verify request, its response
NoToken == [token |-> 0, sellerId |-> 0, expiresAt |-> 0, used |-> FALSE]
IdleVerify == [pc |-> "idle", token |-> 0, t |-> NoToken]
NoVerify == [token |-> 0, code |-> ""]

VARIABLES
  now,          \* wall clock, hours
  links,        \* links collection: sequence of documents, linkId = position
  bids,         \* links/{linkId}/bids: per link the documents in the order they were persisted
  proc,         \* per request slot: position in its handler and the handler's locals
  emailsSent,   \* winner e-mails delivered
  bidBasis,     \* history: per stored bid, the highest amount its request saw (Null: none)
  bidsAtClose,  \* history: number of bids stored when the clock reached endsAt (Null: not closed)
  lastDone,     \* history: the request answered by the latest step and its response, if any
  products,     \* products collection: per product its digitalDownload
  emailTokens,  \* emailTokens collection: sequence of documents, token = position
  sellers,      \* sellers collection: per seller whether it exists and emailVerified
  verify,       \* per request slot: position in the verify handler and its locals
  accepted,     \* history: per token, the verify requests that marked the seller and redirected
  lastVerify    \* history: the verify request answered by the latest step and its response

magicVars == <<emailTokens, sellers, verify, accepted, lastVerify>>
vars == <<now, links, bids, proc, emailsSent, bidBasis, bidsAtClose, lastDone, products, magicVars>>

\* ------------------------------------------------------- pure functions
Exists(l) == l \in 1..Len(links)

\* linkId of a request: a stored link, or one id that names no document
Targets == {l \in LinkIds : l <= Len(links) + 1}

\* (variant: the close instant itself still counts as open)
HasEndedStrict(endsAt, t) == endsAt < t

\* new Date(endsAt) <= now
HasEnded(endsAt, t) == endsAt <= t

\* Number.isInteger(x) ? x : dflt
IntOr(x, dflt) == IF x # Null THEN x ELSE dflt

\* x || dflt on a number (0 is falsy)
Truthy(x, dflt) == IF x # 0 /\ x # Null THEN x ELSE dflt

\* auctionCfg of POST /api/links
AuctionCfg(endsAt, startingPrice, minIncrement, productId) ==
  [enabled |-> TRUE, endsAt |-> endsAt,
   startingPrice_cents |-> IntOr(startingPrice, Truthy(ProductPrice[productId], 0)),
   minIncrement_cents |-> IntOr(minIncrement, DefaultIncrement),
   status |-> "active", winner |-> NoWinner]

\* getHighestBid: orderBy amount_cents desc, limit 1; equal amounts in store order
HighestBids(bs) ==
  IF bs = <<>> THEN {NoBid}
  ELSE {bs[i] : i \in {k \in 1..Len(bs) : \A j \in 1..Len(bs) : bs[j].amount_cents <= bs[k].amount_cents}}

\* orderBy('createdAt', 'desc') over the documents at the positions S
RECURSIVE OrderByCreatedAtDesc(_, _)
OrderByCreatedAtDesc(bs, S) ==
  IF S = {} THEN <<>>
  ELSE LET i == CHOOSE k \in S : \A j \in S : bs[j].createdAt <= bs[k].createdAt
       IN <<bs[i]>> \o OrderByCreatedAtDesc(bs, S \ {i})

\* limit(n)
Limit(s, n) == SubSeq(s, 1, IF Len(s) < n THEN Len(s) ELSE n)

\* (variant: the listing runs from the oldest bid)
RecentOldestFirst(bs) ==
  LET s == OrderByCreatedAtDesc(bs, DOMAIN bs)
  IN Limit([i \in 1..Len(s) |-> s[Len(s) + 1 - i]], RecentLimit)

\* the recent bids of the summary: orderBy('createdAt', 'desc').limit(10)
Recent(bs) == Limit(OrderByCreatedAtDesc(bs, DOMAIN bs), RecentLimit)

\* (variant: the new document takes the place of the latest one)
StoreBidOverLast(bs, bidDoc) ==
  IF bs = <<>> THEN <<bidDoc>> ELSE [bs EXCEPT ![Len(bs)] = bidDoc]

\* doc(bidId).set(bidDoc) under a fresh bidId: one more document in the collection
StoreBid(bs, bidDoc) == Append(bs, bidDoc)

\* (variant: the increment is not added to the highest bid)
MinRequiredNoIncrement(auction, highest) ==
  IF highest # NoBid
    THEN highest.amount_cents
    ELSE Truthy(auction.startingPrice_cents, 0)

\* (variant: the starting price is not applied to the first bid)
MinRequiredNoFloor(auction, highest) ==
  IF highest # NoBid
    THEN highest.amount_cents + Truthy(auction.minIncrement_cents, DefaultIncrement)
    ELSE 0

\* minRequired of POST /api/bids
MinRequired(auction, highest) ==
  IF highest # NoBid
    THEN highest.amount_cents + Truthy(auction.minIncrement_cents, DefaultIncrement)
    ELSE Truthy(auction.startingPrice_cents, 0)

\* the minimum as the Bid Validator contract states it, from the stored documents
MaxAmountOf(bs) == CHOOSE m \in {bs[i].amount_cents : i \in 1..Len(bs)} :
                      \A j \in 1..Len(bs) : bs[j].amount_cents <= m
ContractMin(auction, bs) ==
  IF bs # <<>> THEN MaxAmountOf(bs) + auction.minIncrement_cents
  ELSE auction.startingPrice_cents

\* stageRemoteUrlToStorage: the file is fetched and saved under a fresh path
StageRemoteUrlToStorage(url) ==
  [present |-> TRUE, storagePath |-> "downloads/staged", contentUrl |-> url]
\* the digitalDownload the upload endpoint builds: no contentUrl
UploadedDigital == [present |-> TRUE, storagePath |-> "downloads/upload", contentUrl |-> ""]
\* a || b over digitalDownload values
DigitalOr(a, b) == IF a.present THEN a ELSE b
\* dd && (dd.storagePath || dd.contentUrl)
HasFile(dd) == dd.present /\ (dd.storagePath # "" \/ dd.contentUrl # "")

\* winner of finalizeAuction
WinnerOf(highest) ==
  IF highest # NoBid
    THEN [email |-> highest.email, bidId |-> highest.bidId, amount_cents |-> highest.amount_cents]
    ELSE NoWinner

\* (variant: an auction without a winner is put back to active)
FinalizedOrReopened(doc, winner) ==
  [doc EXCEPT !.auction.status = IF winner = NoWinner THEN "active" ELSE "finalized",
              !.auction.winner = winner, !.active = "false"]

\* (variant: the update replaces the auction map by the fields it names)
FinalizedAuctionReplaced(doc, winner) ==
  [doc EXCEPT !.auction = [NoAuction EXCEPT !.status = "finalized", !.winner = winner],
              !.active = "false"]

\* (variant: the update leaves the link's active flag as it was)
FinalizedStillActive(doc, winner) ==
  [doc EXCEPT !.auction.status = "finalized", !.auction.winner = winner]

\* the update of finalizeAuction applied to the stored document
Finalized(doc, winner) ==
  [doc EXCEPT !.auction.status = "finalized", !.auction.winner = winner, !.active = "false"]

\* (variant: the follow-up branch is taken without a winner)
HasWinnerAlways(winner) == TRUE

\* if (winner) { ... }
HasWinner(winner) == winner # NoWinner

\* (variant: finalizeAuction does not look at the stored status)
FinalizeEntryAgain(link, t) ==
  IF ~link.auction.enabled THEN "null"
  ELSE IF ~HasEnded(link.auction.endsAt, t) THEN "return"
  ELSE "proceed"

\* finalizeAuction up to its first await
FinalizeEntry(link, t) ==
  IF ~link.auction.enabled THEN "null"
  ELSE IF link.auction.status = "finalized" THEN "return"
  ELSE IF ~HasEnded(link.auction.endsAt, t) THEN "return"
  ELSE "proceed"

\* storage of one request slot changed, the others kept
SetProc(p, r) == proc' = [proc EXCEPT ![p] = r] /\ lastDone' = NoneDone
\* the response is sent: the slot is free for the next request
Done(p, r, resp) ==
  /\ proc' = [proc EXCEPT ![p] = IdleProc]
  /\ lastDone' = [kind |-> r.kind, linkId |-> r.linkId, amount |-> r.amount, late |-> r.late,
                   wrote |-> resp.bid # NoBid, specMin |-> r.specMin, basis |-> r.basis,
                   sawBids |-> r.sawBids, resp |-> resp]

\* a request is taken by the first free slot
Free(p) == proc[p].pc = "idle" /\ \A q \in Procs : q < p => proc[q].pc # "idle"

\* new Date() of a bid document, by rank: bid documents are built at distinct
\* instants, each later than the ones built before it
NextCreatedAt(l) ==
  Len(bids[l]) + Cardinality({q \in Procs : proc[q].linkId = l /\ proc[q].pc = "bid_write"}) + 1

InFlightBids(l) == Cardinality({q \in Procs : proc[q].kind = "bid" /\ proc[q].linkId = l
                                              /\ proc[q].pc \in {"bid_query", "bid_write"}})

\* no token issued; the seller owning the products is verified, the other
\* e-mail has no seller document yet
InitMagic ==
  /\ emailTokens = <<>>
  /\ sellers = [s \in SellerIds |-> [exists |-> s = 1, emailVerified |-> s = 1]]
  /\ verify = [p \in Procs |-> IdleVerify]
  /\ accepted = [k \in Tokens |-> 0]
  /\ lastVerify = NoVerify

\* ------------------------------------------------------------------ Init
Init ==
  /\ now = 0
  /\ links = <<>>
  /\ bids = [l \in LinkIds |-> <<>>]
  /\ proc = [p \in Procs |-> IdleProc]
  /\ emailsSent = {}
  /\ bidBasis = [l \in LinkIds |-> <<>>]
  /\ bidsAtClose = [l \in LinkIds |-> Null]
  /\ lastDone = NoneDone
  /\ products = [i \in ProductIds |-> NoProduct]
  /\ InitMagic

\* --------------------------------------------------------------- clock
\* hours since the link was created
Tick ==
  /\ links # <<>> \/ emailTokens # <<>>
  /\ now < MaxTime
  /\ now' = now + 1
  /\ bidsAtClose' = [l \in LinkIds |->
       IF Exists(l) /\ links[l].auction.enabled /\ bidsAtClose[l] = Null
          /\ links[l].auction.endsAt <= now + 1
         THEN Len(bids[l]) ELSE bidsAtClose[l]]
  /\ lastDone' = NoneDone
  /\ UNCHANGED <<links, bids, proc, emailsSent, bidBasis, products, magicVars>>

\* ------------------------------------------------------ POST /api/links
\* request bodies: every auction configuration, and plain links
LinkInputs ==
  [productId : ProductIds, enabled : {TRUE}, endsAt : EndsAtChoices \cup {Null},
   startingPrice : StartingPrices, minIncrement : MinIncrements, expiresAt : {Null, 2},
   digitalFileUrl : DigitalFileUrls]
  \cup [productId : ProductIds, enabled : {FALSE}, endsAt : {Null},
        startingPrice : {Null}, minIncrement : {Null}, expiresAt : {Null, 1},
        digitalFileUrl : DigitalFileUrls]
\* the bodies the life-cycle specification creates its link from
LifecycleInputs ==
  {in \in LinkInputs : in.productId = 2 /\ in.digitalFileUrl = ""
                        /\ (in.enabled => in.startingPrice = 1 /\ in.minIncrement = 1)}
\* the auctions the digital-snapshot specification creates its link from
DigitalInputs ==
  {in \in LinkInputs : in.enabled /\ in.endsAt # Null /\ in.expiresAt = Null
                        /\ in.startingPrice = 1 /\ in.minIncrement = 1}

\* linkDigital: the staged file of the request, else the product's snapshot
LinkDigital(in) ==
  IF in.digitalFileUrl # ""
    THEN StageRemoteUrlToStorage(in.digitalFileUrl)
    ELSE DigitalOr(products[in.productId].digitalDownload, NoDigital)

\* (variant: an expiresAt of the request body is kept on an auction link)
LinkDocCallerExpiry(in, linkId) ==
  LET auctionCfg == IF in.enabled
                      THEN AuctionCfg(in.endsAt, in.startingPrice, in.minIncrement, in.productId)
                      ELSE NoAuction
  IN [linkId |-> linkId, productId |-> in.productId,
      sellerId |-> SellerOf[in.productId],
      expiresAt |-> IF in.expiresAt # Null THEN in.expiresAt ELSE auctionCfg.endsAt,
      digitalDownload |-> LinkDigital(in), hasDigital |-> HasFile(LinkDigital(in)),
      auction |-> auctionCfg, active |-> "unset"]

\* linkDoc of POST /api/links
LinkDoc(in, linkId) ==
  LET auctionCfg == IF in.enabled
                      THEN AuctionCfg(in.endsAt, in.startingPrice, in.minIncrement, in.productId)
                      ELSE NoAuction
  IN [linkId |-> linkId, productId |-> in.productId,
      sellerId |-> SellerOf[in.productId],
      expiresAt |-> IF in.enabled THEN auctionCfg.endsAt ELSE in.expiresAt,
      digitalDownload |-> LinkDigital(in), hasDigital |-> HasFile(LinkDigital(in)),
      auction |-> auctionCfg, active |-> "unset"]

\* One link is created through the endpoint in a run; the other documents of
\* the collection are the follow-up links finalization mints.
\* The file of a digitalFileUrl is staged first, and the request is refused
\* when it cannot be fetched; an auction without endsAt is refused before the
\* document is built.
CreateLink(in) ==
  /\ links = <<>>
  /\ \/ /\ in.digitalFileUrl # ""
        /\ lastDone' = [NoneDone EXCEPT !.kind = "link", !.resp.code = "DIGITAL_FETCH_FAILED"]
        /\ UNCHANGED <<links, bidsAtClose>>
     \/ IF in.enabled /\ in.endsAt = Null
          THEN /\ lastDone' = [NoneDone EXCEPT !.kind = "link", !.resp.code = "ENDSAT_REQUIRED"]
               /\ UNCHANGED <<links, bidsAtClose>>
          ELSE LET linkId == Len(links) + 1
                   linkDoc == LinkDoc(in, linkId)
               IN /\ links' = Append(links, linkDoc)
                  /\ bidsAtClose' = [bidsAtClose EXCEPT ![linkId] =
                       IF in.enabled /\ in.endsAt <= now THEN 0 ELSE Null]
                  /\ lastDone' = [NoneDone EXCEPT !.kind = "link", !.linkId = linkId,
                                                  !.resp.code = "OK",
                                                  !.resp.auction = linkDoc.auction]
  /\ UNCHANGED <<now, bids, proc, emailsSent, bidBasis, products, magicVars>>

\* ------------------------------------------------------- POST /api/bids
\* (variant: the close time is tested before the auction flag)
BidCheckEndedFirst(linkId, t) ==
  IF ~Exists(linkId) THEN "NOT_FOUND"
  ELSE IF HasEnded(links[linkId].auction.endsAt, t) THEN "ended"
  ELSE IF ~links[linkId].auction.enabled THEN "AUCTION_NOT_ENABLED"
  ELSE "open"

\* the checks of POST /api/bids on the link it loaded, in their order
BidCheck(linkId, t) ==
  IF ~Exists(linkId) THEN "NOT_FOUND"
  ELSE IF ~links[linkId].auction.enabled THEN "AUCTION_NOT_ENABLED"
  ELSE IF HasEnded(links[linkId].auction.endsAt, t) THEN "ended"
  ELSE "open"

\* lRef.get(), the enabled and close-time checks, and finalizeAuction up to
\* its first await
BidLoad(p, amount_cents) ==
  /\ Free(p)
  /\ \E linkId \in Targets, email \in Emails :
       LET r == [IdleProc EXCEPT !.kind = "bid", !.linkId = linkId, !.email = email,
                                 !.amount = amount_cents]
           check == BidCheck(linkId, now)
       IN IF check = "NOT_FOUND" THEN Done(p, r, [NoResp EXCEPT !.code = "NOT_FOUND"])
          ELSE LET link == links[linkId]
                   rl == [r EXCEPT !.link = link,
                                   !.late = link.auction.enabled /\ link.auction.endsAt <= now]
               IN IF check = "AUCTION_NOT_ENABLED"
                    THEN Done(p, rl, [NoResp EXCEPT !.code = "AUCTION_NOT_ENABLED"])
                  ELSE IF check = "ended"
                    THEN IF FinalizeEntry(link, now) = "proceed"
                           THEN SetProc(p, [rl EXCEPT !.pc = "fin_query", !.email = "", !.amount = 0])
                           ELSE Done(p, rl, [NoResp EXCEPT !.code = "AUCTION_ENDED",
                                                           !.auction = link.auction])
                  ELSE /\ Len(bids[linkId]) + InFlightBids(linkId) < MaxBids
                       /\ SetProc(p, [rl EXCEPT !.pc = "bid_query"])
  /\ UNCHANGED <<now, links, bids, emailsSent, bidBasis, bidsAtClose, products, magicVars>>

\* getHighestBid, minRequired, the amount check and the bid document
BidQuery(p) ==
  /\ proc[p].pc = "bid_query"
  /\ \E highest \in HighestBids(bids[proc[p].linkId]) :
       LET r == proc[p]
           minRequired == MinRequired(r.link.auction, highest)
           rq == [r EXCEPT !.specMin = ContractMin(links[r.linkId].auction, bids[r.linkId]),
                           !.basis = IF highest = NoBid THEN Null ELSE highest.amount_cents]
       IN IF r.amount < minRequired
            THEN Done(p, rq, [NoResp EXCEPT !.code = "BID_TOO_LOW",
                                               !.minRequired_cents = minRequired,
                                               !.highest_cents = Truthy(highest.amount_cents, 0)])
            ELSE SetProc(p, [rq EXCEPT !.pc = "bid_write", !.createdAt = NextCreatedAt(r.linkId)])
  /\ UNCHANGED <<now, links, bids, emailsSent, bidBasis, bidsAtClose, products, magicVars>>

\* lRef.collection('bids').doc(bidId).set(bidDoc) and the response
BidWrite(p) ==
  /\ proc[p].pc = "bid_write"
  /\ LET r == proc[p]
         bidDoc == [bidId |-> Len(bids[r.linkId]) + 1, email |-> ToLowerCase(r.email),
                    amount_cents |-> r.amount, createdAt |-> r.createdAt]
     IN /\ bids' = [bids EXCEPT ![r.linkId] = StoreBid(@, bidDoc)]
        /\ bidBasis' = [bidBasis EXCEPT ![r.linkId] = Append(@, r.basis)]
        /\ Done(p, r, [NoResp EXCEPT !.code = "OK", !.bid = bidDoc])
  /\ UNCHANGED <<now, links, emailsSent, bidsAtClose, products, magicVars>>

\* ------------------------------------------------------- finalizeAuction
\* (variant: the caller goes on with the link it passed to finalizeAuction)
ReturnedSnapshot(p, r, link) ==
  IF r.kind = "bid"
    THEN Done(p, r, [NoResp EXCEPT !.code = "AUCTION_ENDED", !.auction = r.link.auction])
    ELSE SetProc(p, [r EXCEPT !.pc = "sum_recent", !.sawBids = FALSE])

\* the caller's continuation once finalizeAuction has returned `link`
Returned(p, r, link) ==
  IF r.kind = "bid"
    THEN Done(p, [r EXCEPT !.link = link],
              [NoResp EXCEPT !.code = "AUCTION_ENDED", !.auction = link.auction])
    ELSE SetProc(p, [r EXCEPT !.link = link, !.pc = "sum_recent", !.sawBids = FALSE])

\* (variant: the follow-up link is written before the auction state)
FinStepAfterMintFirst(pc, winner) ==
  CASE pc = "fin_query" -> IF HasWinner(winner) THEN "fin_mint" ELSE "fin_commit"
    [] pc = "fin_mint" -> "fin_commit"
    [] pc = "fin_commit" -> IF HasWinner(winner) THEN "fin_email" ELSE "fin_reload"
    [] OTHER -> "fin_reload"

\* the order of the awaited steps of finalizeAuction: the query, the update of
\* the link, then (with a winner) the follow-up link and the email, then the
\* final get
FinStepAfter(pc, winner) ==
  CASE pc = "fin_query" -> "fin_commit"
    [] pc = "fin_commit" -> IF HasWinner(winner) THEN "fin_mint" ELSE "fin_reload"
    [] pc = "fin_mint" -> "fin_email"
    [] OTHER -> "fin_reload"

\* getHighestBid and the winner
FinQuery(p) ==
  /\ proc[p].pc = "fin_query"
  /\ \E highest \in HighestBids(bids[proc[p].linkId]) :
       SetProc(p, [proc[p] EXCEPT !.pc = FinStepAfter("fin_query", WinnerOf(highest)),
                                  !.winner = WinnerOf(highest)])
  /\ UNCHANGED <<now, links, bids, emailsSent, bidBasis, bidsAtClose, products, magicVars>>

\* the update of the link document; then the product and seller reads
FinCommit(p) ==
  /\ proc[p].pc = "fin_commit"
  /\ LET r == proc[p]
     IN /\ links' = [links EXCEPT ![r.linkId] = Finalized(@, r.winner)]
        /\ SetProc(p, [r EXCEPT !.pc = FinStepAfter("fin_commit", r.winner),
                                 !.product = IF HasWinner(r.winner)
                                               THEN products[r.link.productId]
                                               ELSE NoProduct])
  /\ UNCHANGED <<now, bids, emailsSent, bidBasis, bidsAtClose, products, magicVars>>

\* (variant: the product's file is preferred to the auction link's)
WinnerLinkDocProductFirst(link, product, winnerLinkId, t) ==
  [linkId |-> winnerLinkId, productId |-> link.productId, sellerId |-> link.sellerId,
   expiresAt |-> t + WinnerLinkHours,
   digitalDownload |-> DigitalOr(product.digitalDownload, DigitalOr(link.digitalDownload, NoDigital)),
   hasDigital |-> HasFile(link.digitalDownload) \/ HasFile(product.digitalDownload),
   auction |-> NoAuction, active |-> "unset"]

\* the winner-only purchase link
WinnerLinkDoc(link, product, winnerLinkId, t) ==
  [linkId |-> winnerLinkId, productId |-> link.productId, sellerId |-> link.sellerId,
   expiresAt |-> t + WinnerLinkHours,
   digitalDownload |-> DigitalOr(link.digitalDownload, DigitalOr(product.digitalDownload, NoDigital)),
   hasDigital |-> HasFile(link.digitalDownload) \/ HasFile(product.digitalDownload),
   auction |-> NoAuction, active |-> "unset"]

\* (variant: an exception in the try block leaves finalizeAuction and the request stops)
AfterThrowPropagated(r) ==
  [r EXCEPT !.pc = "failed", !.newLinkId = 0, !.winner = NoWinner, !.product = NoProduct]

\* catch (e) { console.error(...) }: the exception ends the try block and
\* finalizeAuction goes on at the final get
AfterThrow(r) ==
  [r EXCEPT !.pc = "fin_reload", !.newLinkId = 0, !.winner = NoWinner, !.product = NoProduct]

\* set(winnerLinkDoc): stored, or it throws into the catch
FinMint(p) ==
  /\ proc[p].pc = "fin_mint"
  /\ LET r == proc[p]
         winnerLinkId == Len(links) + 1
     IN \/ /\ links' = Append(links, WinnerLinkDoc(r.link, r.product, winnerLinkId, now))
           /\ SetProc(p, [r EXCEPT !.pc = FinStepAfter("fin_mint", r.winner),
                                   !.newLinkId = winnerLinkId, !.product = NoProduct])
        \/ /\ SetProc(p, AfterThrow(r))
           /\ UNCHANGED links
  /\ UNCHANGED <<now, bids, emailsSent, bidBasis, bidsAtClose, products, magicVars>>

\* resend.emails.send: delivered, or it throws into the catch
FinEmail(p) ==
  /\ proc[p].pc = "fin_email"
  /\ LET r == proc[p]
     IN \/ /\ emailsSent' = emailsSent \cup {[to |-> r.winner.email, linkId |-> r.newLinkId,
                                              amount_cents |-> r.winner.amount_cents]}
           /\ SetProc(p, [r EXCEPT !.pc = FinStepAfter("fin_email", r.winner),
                                   !.newLinkId = 0, !.winner = NoWinner])
        \/ /\ UNCHANGED emailsSent
           /\ SetProc(p, AfterThrow(r))
  /\ UNCHANGED <<now, links, bids, bidBasis, bidsAtClose, products, magicVars>>

\* the final get of the link document; finalizeAuction returns it
FinReload(p) ==
  /\ proc[p].pc = "fin_reload"
  /\ Returned(p, proc[p], links[proc[p].linkId])
  /\ UNCHANGED <<now, links, bids, emailsSent, bidBasis, bidsAtClose, products, magicVars>>

\* ----------------------------------------- GET /api/bids/:linkId/summary
\* lRef.get(), the enabled check, and the finalize-if-ended check
SumLoad(p) ==
  /\ Free(p)
  /\ \E linkId \in Targets :
       LET r == [IdleProc EXCEPT !.kind = "summary", !.linkId = linkId]
       IN IF ~Exists(linkId) THEN Done(p, r, [NoResp EXCEPT !.code = "NOT_FOUND"])
          ELSE LET link == links[linkId]
                   rl == [r EXCEPT !.link = link,
                                   !.late = link.auction.enabled /\ link.auction.endsAt <= now]
               IN IF ~link.auction.enabled
                    THEN Done(p, rl, [NoResp EXCEPT !.code = "AUCTION_NOT_ENABLED"])
                  ELSE IF HasEnded(link.auction.endsAt, now) /\ link.auction.status # "finalized"
                          /\ FinalizeEntry(link, now) = "proceed"
                    THEN SetProc(p, [rl EXCEPT !.pc = "fin_query", !.sawBids = bids[linkId] # <<>>])
                  ELSE SetProc(p, [rl EXCEPT !.pc = "sum_recent"])
  /\ UNCHANGED <<now, links, bids, emailsSent, bidBasis, bidsAtClose, products, magicVars>>

\* the recent bids: orderBy('createdAt', 'desc').limit(10).get()
SumRecent(p) ==
  /\ proc[p].pc = "sum_recent"
  /\ SetProc(p, [proc[p] EXCEPT !.pc = "sum_highest", !.recent = Recent(bids[proc[p].linkId])])
  /\ UNCHANGED <<now, links, bids, emailsSent, bidBasis, bidsAtClose, products, magicVars>>

\* getHighestBid
SumHighest(p) ==
  /\ proc[p].pc = "sum_highest"
  /\ \E highest \in HighestBids(bids[proc[p].linkId]) :
       SetProc(p, [proc[p] EXCEPT !.pc = "sum_count", !.highest = highest])
  /\ UNCHANGED <<now, links, bids, emailsSent, bidBasis, bidsAtClose, products, magicVars>>

\* count().get() and the response
SumCount(p) ==
  /\ proc[p].pc = "sum_count"
  /\ LET r == proc[p]
     IN Done(p, r, [NoResp EXCEPT !.code = "OK", !.auction = r.link.auction,
                                  !.highest_cents = Truthy(r.highest.amount_cents, 0),
                                  !.count = Truthy(Len(bids[r.linkId]), Len(r.recent)),
                                  !.recent = r.recent])
  /\ UNCHANGED <<now, links, bids, emailsSent, bidBasis, bidsAtClose, products, magicVars>>

\* ------------------------------------- POST /api/create-checkout-session
\* (variant: checkout is not held back while the auction runs)
CheckoutBlockedNever(link) == FALSE

\* link.auction?.enabled && link.auction.status !== 'finalized'
CheckoutBlocked(link) == link.auction.enabled /\ link.auction.status # "finalized"

\* (variant: a link is still usable at the instant of its expiresAt)
ExpiredAfter(link, t) == link.expiresAt # Null /\ link.expiresAt < t

\* link.expiresAt && new Date(link.expiresAt) <= new Date()
Expired(link, t) == link.expiresAt # Null /\ link.expiresAt <= t

\* (variant: the product price is charged whatever the auction)
UnitAmountProductPrice(link, top) == Truthy(ProductPrice[link.productId], Null)

\* unitAmount of the checkout: the top bid of a finalized auction, else the product price
UnitAmount(link, top) ==
  IF link.auction.enabled /\ link.auction.status = "finalized"
    THEN top.amount_cents
    ELSE Truthy(ProductPrice[link.productId], Null)

\* The whole handler is one step: a link document changes only in its auction
\* fields, and a link whose auction is finalized has expired (expiresAt =
\* endsAt), so nothing the handler reads after the link can change under it.
\* A response OK stands for the payment session created with unit_amount.
Checkout(p) ==
  /\ Free(p)
  /\ \E linkId \in Targets :
       LET r == [IdleProc EXCEPT !.kind = "checkout", !.linkId = linkId]
       IN IF ~Exists(linkId) THEN Done(p, r, [NoResp EXCEPT !.code = "NOT_FOUND"])
          ELSE LET link == links[linkId]
               IN IF Expired(link, now)
                    THEN Done(p, r, [NoResp EXCEPT !.code = "EXPIRED"])
                  ELSE IF CheckoutBlocked(link)
                    THEN Done(p, r, [NoResp EXCEPT !.code = "AUCTION_ACTIVE"])
                  ELSE \E top \in HighestBids(bids[linkId]) :
                         LET auctioned == link.auction.enabled /\ link.auction.status = "finalized"
                             unitAmount == UnitAmount(link, top)
                         IN IF auctioned /\ top.amount_cents = 0
                              THEN Done(p, r, [NoResp EXCEPT !.code = "NO_WINNING_BID"])
                            ELSE IF unitAmount = Null \/ unitAmount <= 0
                              THEN Done(p, r, [NoResp EXCEPT !.code = "PRICE_INVALID"])
                            ELSE Done(p, r, [NoResp EXCEPT !.code = "OK", !.unit_amount = unitAmount])
  /\ UNCHANGED <<now, links, bids, emailsSent, bidBasis, bidsAtClose, products, magicVars>>

\* ------------------------------------- POST /api/products/:productId/digital
\* the file is saved and the product document gets its description
UploadDigital(productId) ==
  /\ products[productId].digitalDownload # UploadedDigital
  /\ products' = [products EXCEPT ![productId].digitalDownload = UploadedDigital]
  /\ lastDone' = NoneDone
  /\ UNCHANGED <<now, links, bids, proc, emailsSent, bidBasis, bidsAtClose, magicVars>>

\* ---------------------------------- POST /api/sellers/request-magic-link
\* the seller is created if the e-mail has none, and a fresh token is stored
\* for it, valid for 15 minutes
RequestMagicLink(sellerId) ==
  /\ Len(emailTokens) < MaxTokens
  /\ sellers' = IF sellers[sellerId].exists THEN sellers
                ELSE [sellers EXCEPT ![sellerId] = [exists |-> TRUE, emailVerified |-> FALSE]]
  /\ emailTokens' = Append(emailTokens,
       [token |-> Len(emailTokens) + 1, sellerId |-> sellerId,
        expiresAt |-> now * MinutesPerHour + TokenMinutes, used |-> FALSE])
  /\ lastVerify' = NoVerify
  /\ UNCHANGED <<verify, accepted>>
  /\ UNCHANGED <<now, links, bids, proc, emailsSent, bidBasis, bidsAtClose, lastDone, products>>

\* ------------------------------------------- GET /api/auth/magic/verify
\* a verify request is taken by the first free slot
FreeVerify(p) == verify[p].pc = "idle" /\ \A q \in Procs : q < p => verify[q].pc # "idle"

\* new Date(t.expiresAt).getTime() < Date.now()
TokenExpired(t, time) == t.expiresAt < time * MinutesPerHour

\* tRef.get() and the three checks on the token document
VerifyLoad(p, token) ==
  /\ FreeVerify(p)
  /\ IF token > Len(emailTokens)
       THEN lastVerify' = [token |-> token, code |-> "INVALID_TOKEN"] /\ UNCHANGED verify
     ELSE IF emailTokens[token].used
       THEN lastVerify' = [token |-> token, code |-> "ALREADY_USED"] /\ UNCHANGED verify
     ELSE IF TokenExpired(emailTokens[token], now)
       THEN lastVerify' = [token |-> token, code |-> "TOKEN_EXPIRED"] /\ UNCHANGED verify
     ELSE /\ verify' = [verify EXCEPT ![p] = [pc |-> "ver_use", token |-> token,
                                              t |-> emailTokens[token]]]
          /\ lastVerify' = NoVerify
  /\ UNCHANGED <<emailTokens, sellers, accepted>>
  /\ UNCHANGED <<now, links, bids, proc, emailsSent, bidBasis, bidsAtClose, lastDone, products>>

\* tRef.update({ used: true })
VerifyUse(p) ==
  /\ verify[p].pc = "ver_use"
  /\ emailTokens' = [emailTokens EXCEPT ![verify[p].token].used = TRUE]
  /\ verify' = [verify EXCEPT ![p].pc = "ver_seller"]
  /\ lastVerify' = NoVerify
  /\ UNCHANGED <<sellers, accepted>>
  /\ UNCHANGED <<now, links, bids, proc, emailsSent, bidBasis, bidsAtClose, lastDone, products>>

\* sellers.doc(t.sellerId).set({ emailVerified: true }, { merge: true }) and the redirect
VerifySeller(p) ==
  /\ verify[p].pc = "ver_seller"
  /\ sellers' = [sellers EXCEPT ![verify[p].t.sellerId] = [exists |-> TRUE, emailVerified |-> TRUE]]
  /\ accepted' = [accepted EXCEPT ![verify[p].token] = @ + 1]
  /\ lastVerify' = [token |-> verify[p].token, code |-> "REDIRECT"]
  /\ verify' = [verify EXCEPT ![p] = IdleVerify]
  /\ UNCHANGED emailTokens
  /\ UNCHANGED <<now, links, bids, proc, emailsSent, bidBasis, bidsAtClose, lastDone, products>>

\* ------------------------------------------------------ specifications
\* The life cycle of one link: creation, bidding, close, finalization, checkout.
Next ==
  \/ Tick
  \/ \E in \in LifecycleInputs : CreateLink(in)
  \/ \E p \in Procs :
       \/ \E amount_cents \in LifecycleAmounts : BidLoad(p, amount_cents)
       \/ BidQuery(p) \/ BidWrite(p)
       \/ FinQuery(p) \/ FinCommit(p) \/ FinMint(p) \/ FinEmail(p) \/ FinReload(p)
       \/ SumLoad(p) \/ SumRecent(p) \/ SumHighest(p) \/ SumCount(p)
       \/ Checkout(p)

Spec == Init /\ [][Next]_vars

\* Bidding on an open auction, under every auction configuration.
NextBid ==
  \/ \E in \in LinkInputs : CreateLink(in)
  \/ \E p \in Procs :
       \/ \E amount_cents \in Amounts : BidLoad(p, amount_cents)
       \/ BidQuery(p) \/ BidWrite(p)

SpecBid == Init /\ [][NextBid]_vars

\* The read handlers (summary, checkout) as functions of the documents they
\* read and of their clock reading.  The link is one POST /api/links created,
\* left active before endsAt or finalized with the highest bid as winner; the
\* collection holds n bids, each one increment above the one before it, and
\* `swap` (0: none) names two racing requests whose documents were stored in
\* the reverse of the order they were built in.  Under one monotone clock a
\* finalized link is read at or after endsAt only, where the expiry check of
\* checkout answers first; the clock reading is drawn freely here so that the
\* amount computation of checkout is applied to a finalized auction.
StoredCreatedAt(i, swap) ==
  IF swap # 0 /\ i = swap THEN i + 1 ELSE IF swap # 0 /\ i = swap + 1 THEN i - 1 ELSE i
StoredBids(n, first, swap) ==
  [i \in 1..n |-> [bidId |-> i, email |-> "amy@x.io", amount_cents |-> first + i - 1,
                   createdAt |-> StoredCreatedAt(i, swap)]]
StoredBasis(n, first, swap) ==
  [i \in 1..n |-> LET k == IF swap # 0 /\ i = swap + 1 THEN i - 1 ELSE i
                  IN IF k = 1 THEN Null ELSE first + k - 2]
StoredInputs ==
  {in \in LinkInputs : in.enabled /\ in.endsAt # Null /\ in.minIncrement = 1
                        /\ in.expiresAt = Null /\ in.digitalFileUrl = ""}

InitStored ==
  \E in \in StoredInputs, n \in 0..MaxStored, finalized \in BOOLEAN, t \in 0..MaxTime :
    \E swap \in 0..(IF n < 2 THEN 0 ELSE n - 1) :
      LET created == LinkDoc(in, 1)
          first == created.auction.startingPrice_cents
          bs == StoredBids(n, first, swap)
          top == CHOOSE b \in HighestBids(bs) : TRUE
      IN /\ ~finalized => ~HasEnded(in.endsAt, t)
         /\ products = [i \in ProductIds |-> NoProduct]
         /\ InitMagic
         /\ now = t
         /\ links = <<IF finalized THEN Finalized(created, WinnerOf(top)) ELSE created>>
         /\ bids = [l \in LinkIds |-> IF l = 1 THEN bs ELSE <<>>]
         /\ proc = [p \in Procs |-> IdleProc]
         /\ emailsSent = {}
         /\ bidBasis = [l \in LinkIds |-> IF l = 1 THEN StoredBasis(n, first, swap) ELSE <<>>]
         /\ bidsAtClose = [l \in LinkIds |-> IF l = 1 /\ finalized THEN n ELSE Null]
         /\ lastDone = NoneDone

NextStored ==
  \E p \in Procs :
    \/ SumLoad(p) \/ SumRecent(p) \/ SumHighest(p) \/ SumCount(p)
    \/ Checkout(p)

SpecStored == InitStored /\ [][NextStored]_vars

\* The digital file on its way to the follow-up link: products created with or
\* without a staged file, an auction created with or without a file of its
\* own, a file uploaded to the product at any moment, and requests served one
\* after the other.
InitDigital ==
  /\ now = 0
  /\ links = <<>>
  /\ bids = [l \in LinkIds |-> <<>>]
  /\ proc = [p \in Procs |-> IdleProc]
  /\ emailsSent = {}
  /\ bidBasis = [l \in LinkIds |-> <<>>]
  /\ bidsAtClose = [l \in LinkIds |-> Null]
  /\ lastDone = NoneDone
  /\ products \in [ProductIds ->
        {NoProduct, [digitalDownload |-> StageRemoteUrlToStorage("https://f.io/p")]}]
  /\ InitMagic

NextDigital ==
  \/ Tick
  \/ \E in \in DigitalInputs : CreateLink(in)
  \/ \E productId \in ProductIds : UploadDigital(productId)
  \/ \E p \in DigitalProcs :
       \/ \E amount_cents \in LifecycleAmounts : BidLoad(p, amount_cents)
       \/ BidQuery(p) \/ BidWrite(p)
       \/ FinQuery(p) \/ FinCommit(p) \/ FinMint(p) \/ FinEmail(p) \/ FinReload(p)
       \/ SumLoad(p) \/ SumRecent(p) \/ SumHighest(p) \/ SumCount(p)

SpecDigital == InitDigital /\ [][NextDigital]_vars

\* E-mail verification: tokens are requested and verify requests race.
NextMagic ==
  \/ Tick
  \/ \E sellerId \in SellerIds : RequestMagicLink(sellerId)
  \/ \E p \in Procs :
       \/ \E token \in Tokens : VerifyLoad(p, token)
       \/ VerifyUse(p) \/ VerifySeller(p)

SpecMagic == Init /\ [][NextMagic]_vars

\* ------------------------------------------------------------ properties
AuctionLinks == {l \in LinkIds : Exists(l) /\ links[l].auction.enabled}
\* the documents finalization minted: every document but the link created through the endpoint
FollowUpLinks == {k \in LinkIds : Exists(k) /\ k > 1}
FinPcs == {"fin_query", "fin_commit", "fin_mint", "fin_email", "fin_reload"}
Finalizing(l) == \E p \in Procs : proc[p].linkId = l /\ proc[p].pc \in FinPcs
IsFinalized(l) == links[l].auction.status = "finalized"
AmountsBefore(l, i) == {bids[l][j].amount_cents : j \in 1..(i - 1)}

\* C1 (as stated): the bids persisted on a link form, in the order they are
\* persisted, a strictly increasing sequence: the first is >= startingPrice_cents
\* and each later one is >= the highest amount persisted before it + minIncrement_cents.
C1_StrictlyIncreasing ==
  \A l \in AuctionLinks : \A i \in 1..Len(bids[l]) :
    /\ i = 1 => bids[l][i].amount_cents >= links[l].auction.startingPrice_cents
    /\ \A a \in AmountsBefore(l, i) :
         /\ bids[l][i].amount_cents > a
         /\ bids[l][i].amount_cents >= a + links[l].auction.minIncrement_cents

\* C1 (amended): every persisted bid is >= startingPrice_cents and, when the
\* highest-bid query of its request found a bid, strictly greater than that bid
\* and >= its amount + minIncrement_cents; hence a bid whose query saw every
\* bid persisted before it is strictly above all of them.
C1_IncreasingOverQueried ==
  \A l \in AuctionLinks : \A i \in 1..Len(bids[l]) :
    /\ bids[l][i].amount_cents >= links[l].auction.startingPrice_cents
    /\ bidBasis[l][i] # Null =>
         /\ bids[l][i].amount_cents > bidBasis[l][i]
         /\ bids[l][i].amount_cents >= bidBasis[l][i] + links[l].auction.minIncrement_cents
    /\ (i > 1 /\ \A a \in AmountsBefore(l, i) : a <= bidBasis[l][i]) =>
         \A a \in AmountsBefore(l, i) :
           /\ bids[l][i].amount_cents > a
           /\ bids[l][i].amount_cents >= a + links[l].auction.minIncrement_cents

\* two bids persisted, the second validated against the first
C1_Witness ==
  \E l \in AuctionLinks : /\ Len(bids[l]) = 2
                          /\ bidBasis[l][2] = bids[l][1].amount_cents
                          /\ bids[l][2].amount_cents > bids[l][1].amount_cents

\* C2: once a link is stored as finalized, no later step changes its status or
\* its winner (finalization is idempotent, the winner is set exactly once).
C2_WinnerSetOnce ==
  [][\A l \in LinkIds : (Exists(l) /\ IsFinalized(l)) =>
        /\ links'[l].auction.status = "finalized"
        /\ links'[l].auction.winner = links[l].auction.winner]_vars

\* C3: if at least one bid exists when the auction closes, exactly one follow-up
\* link is created over the run (never two; one once finalization has run), it
\* references the productId of the auction link and expires 48 hours after the
\* finalization.
C3_ExactlyOneFollowUp ==
  \A l \in AuctionLinks : bidsAtClose[l] >= 1 =>
    /\ Cardinality(FollowUpLinks) <= 1
    /\ (IsFinalized(l) /\ ~Finalizing(l)) => Cardinality(FollowUpLinks) = 1
    /\ \A k \in FollowUpLinks :
         /\ links[k].productId = links[l].productId
         /\ links[k].expiresAt - WinnerLinkHours \in links[l].auction.endsAt..now

\* C4: a bid request that arrives once now >= endsAt (the instant endsAt
\* included) is answered 'auction ended' and persists no bid, whether it
\* finalizes the auction itself or finds it finalized.
C4_LateBidRejected ==
  /\ (lastDone.kind = "bid" /\ lastDone.late) =>
       (lastDone.resp.code = "AUCTION_ENDED" /\ ~lastDone.wrote)
  /\ \A p \in Procs : (proc[p].kind = "bid" /\ proc[p].late) => proc[p].pc \in FinPcs

\* a bid arriving exactly at endsAt was answered 'auction ended' with the final state
C4_Witness ==
  /\ lastDone.kind = "bid" /\ lastDone.late
  /\ lastDone.resp.code = "AUCTION_ENDED"
  /\ lastDone.resp.auction.status = "finalized"
  /\ now = links[lastDone.linkId].auction.endsAt

\* C5: a checkout session created through a winner follow-up link charges the
\* winning bid amount of the auction it was minted for, not the product price.
C5_FollowUpChargesWinningBid ==
  (lastDone.kind = "checkout" /\ lastDone.resp.code = "OK" /\ lastDone.linkId \in FollowUpLinks) =>
    lastDone.resp.unit_amount = links[1].auction.winner.amount_cents

\* C6: auction.winner is non-null if and only if auction.status = 'finalized'
\* and at least one bid existed for the link at close time (endsAt).
C6_WinnerIffBidAtClose ==
  \A l \in AuctionLinks :
    (links[l].auction.winner # NoWinner) <=> (IsFinalized(l) /\ bidsAtClose[l] >= 1)

\* C7: a stored auction.status only ever moves from 'active' to 'finalized':
\* no step of any operation changes it in another way.
C7_StatusMonotone ==
  [][\A l \in LinkIds : Exists(l) =>
        \/ links'[l].auction.status = links[l].auction.status
        \/ links[l].auction.status = "active" /\ links'[l].auction.status = "finalized"]_vars

\* a finalized link over which a second finalizer has committed as well
C7_Witness ==
  \E l \in AuctionLinks : IsFinalized(l) /\ Cardinality(FollowUpLinks) = 2

\* C8: a bid on an open auction whose amount is below the minimum required
\* (highest stored bid + minIncrement_cents, or startingPrice_cents without a
\* bid, over the bids its query finds) is answered bid-too-low with a
\* minRequired_cents above the amount and the highest stored amount as
\* highest_cents, and no bid document is written for it.
C8_TooLowRejected ==
  /\ (lastDone.kind = "bid" /\ lastDone.resp.code \in {"OK", "BID_TOO_LOW"}
        /\ lastDone.amount < lastDone.specMin) =>
       /\ lastDone.resp.code = "BID_TOO_LOW"
       /\ ~lastDone.wrote
       /\ lastDone.resp.minRequired_cents > lastDone.amount
       /\ lastDone.resp.highest_cents = IF lastDone.basis = Null THEN 0 ELSE lastDone.basis
  /\ \A p \in Procs : proc[p].pc = "bid_write" => proc[p].amount >= proc[p].specMin

\* a bid below highest + increment was answered bid-too-low
C8_Witness ==
  /\ lastDone.kind = "bid" /\ lastDone.resp.code = "BID_TOO_LOW"
  /\ lastDone.basis # Null /\ lastDone.amount >= lastDone.basis
  /\ lastDone.amount < lastDone.specMin

\* C9: the minimum bid placement enforces and advertises is exactly highest +
\* minIncrement_cents when a highest bid exists and startingPrice_cents
\* otherwise, for every stored startingPrice_cents >= 0 and minIncrement_cents
\* >= 0 (the default increment applies only when none was configured).
C9_MinimumIsContractMinimum ==
  (lastDone.kind = "bid" /\ lastDone.resp.code \in {"OK", "BID_TOO_LOW"}) =>
    /\ lastDone.resp.code = "OK" <=> lastDone.amount >= lastDone.specMin
    /\ lastDone.resp.code = "BID_TOO_LOW" => lastDone.resp.minRequired_cents = lastDone.specMin

\* C10: if no bid is stored when the auction is finalized, auction.winner is
\* null, no follow-up link is created and no winner e-mail is sent.
C10_NoBidNoWinner ==
  /\ \A l \in AuctionLinks : (IsFinalized(l) /\ bids[l] = <<>>) =>
       /\ links[l].auction.winner = NoWinner
       /\ FollowUpLinks = {}
       /\ emailsSent = {}
  /\ \A p \in Procs : proc[p].pc \in {"fin_mint", "fin_email"} => proc[p].winner # NoWinner

\* a summary ran the finalization of an auction without bids
C10_Witness ==
  /\ lastDone.kind = "summary" /\ lastDone.resp.code = "OK"
  /\ lastDone.resp.auction.status = "finalized"
  /\ lastDone.resp.auction.winner = NoWinner
  /\ bids[lastDone.linkId] = <<>>

\* C11: when the write of the winner follow-up link fails during finalization,
\* the failure reaches the caller of finalization: the request is answered with
\* a server error in that step, while auction.status = 'finalized' and the
\* stored winner stay committed.
C11_LinkFailurePropagates ==
  [][\A p \in Procs :
       (proc[p].pc = "fin_mint" /\ proc'[p].pc # "fin_mint" /\ Len(links') = Len(links)) =>
         /\ lastDone'.kind = proc[p].kind
         /\ lastDone'.resp.code = "SERVER_ERROR"
         /\ links' = links
         /\ IsFinalized(proc[p].linkId)]_vars

\* C12: when sending the winner e-mail fails during finalization, the failure
\* is absorbed: finalizeAuction goes on to its final get and the request ends as
\* it does after a delivered e-mail ('auction ended' for a bid, the summary for
\* a summary), and the finalized status, the winner and the follow-up link
\* already created stay stored.
C12_EmailFailureAbsorbed ==
  [][\A p \in Procs :
       /\ (proc[p].pc = "fin_email" /\ proc'[p].pc # "fin_email" /\ emailsSent' = emailsSent) =>
            /\ proc'[p].pc = "fin_reload"
            /\ links' = links
            /\ IsFinalized(proc[p].linkId)
            /\ proc[p].newLinkId \in FollowUpLinks
       /\ (proc[p].pc = "fin_reload" /\ proc'[p].pc # "fin_reload") =>
            /\ links' = links
            /\ \/ /\ proc[p].kind = "bid"
                  /\ lastDone'.kind = "bid" /\ lastDone'.resp.code = "AUCTION_ENDED"
                  /\ lastDone'.resp.auction.status = "finalized"
               \/ /\ proc[p].kind = "summary"
                  /\ proc'[p].pc \notin {"idle", "failed"}
                  /\ proc'[p].link.auction.status = "finalized"]_vars

\* the e-mail of the only follow-up link was not delivered and the summary
\* request that finalized is at the final get of finalizeAuction
C12_Witness ==
  \E p \in Procs :
    /\ proc[p].pc = "fin_reload" /\ proc[p].kind = "summary"
    /\ \A q \in Procs \ {p} : proc[q].pc = "idle"
    /\ Cardinality(FollowUpLinks) = 1 /\ emailsSent = {}
    /\ IsFinalized(proc[p].linkId)
    /\ links[proc[p].linkId].auction.winner # NoWinner

\* C13: checkout-session creation never creates a payment session for a link
\* whose auction is enabled and whose stored auction.status is not 'finalized':
\* such a request is answered with the expiry error or the auction-is-active
\* error.
C13_NoSessionWhileActive ==
  (/\ lastDone.kind = "checkout" /\ Exists(lastDone.linkId)
   /\ links[lastDone.linkId].auction.enabled
   /\ ~IsFinalized(lastDone.linkId)) =>
     lastDone.resp.code \in {"EXPIRED", "AUCTION_ACTIVE"}

\* checkout was asked for a running auction that has a bid, and refused
C13_Witness ==
  /\ lastDone.kind = "checkout" /\ lastDone.resp.code = "AUCTION_ACTIVE"
  /\ links[lastDone.linkId].auction.status = "active"
  /\ bids[lastDone.linkId] # <<>>

\* C14: whenever checkout-session creation produces a session for a link whose
\* auction is finalized, the session's unit amount is the highest amount among
\* the stored bids of that link, not the product's price_cents; without a
\* stored bid no session is created.
C14_FinalizedChargesTopBid ==
  (/\ lastDone.kind = "checkout" /\ lastDone.resp.code = "OK"
   /\ links[lastDone.linkId].auction.enabled
   /\ IsFinalized(lastDone.linkId)) =>
     /\ bids[lastDone.linkId] # <<>>
     /\ \E i \in DOMAIN bids[lastDone.linkId] :
          lastDone.resp.unit_amount = bids[lastDone.linkId][i].amount_cents
     /\ \A i \in DOMAIN bids[lastDone.linkId] :
          bids[lastDone.linkId][i].amount_cents <= lastDone.resp.unit_amount

\* a session over a finalized auction at an amount that is not the product price
C14_Witness ==
  /\ lastDone.kind = "checkout" /\ lastDone.resp.code = "OK"
  /\ IsFinalized(lastDone.linkId)
  /\ Len(bids[lastDone.linkId]) >= 2
  /\ lastDone.resp.unit_amount # ProductPrice[links[lastDone.linkId].productId]

\* C15: a summary fetch that finds an enabled auction past endsAt and stored as
\* 'active' runs finalization before it composes its response: the link it
\* answers with is finalized and, if bids were stored when the request loaded
\* the link, carries a winner; and every bid or summary request that observes
\* the auction past endsAt leaves it finalized.
C15_SummaryFinalizesFirst ==
  [][\A p \in Procs :
       /\ (proc[p].kind = "summary" /\ proc[p].pc = "fin_reload" /\ proc'[p].pc # "fin_reload") =>
            /\ proc'[p].pc = "sum_recent"
            /\ proc'[p].link.auction.status = "finalized"
            /\ proc[p].sawBids => proc'[p].link.auction.winner # NoWinner
       /\ (proc[p].kind = "summary" /\ proc[p].pc = "sum_count" /\ proc'[p].pc # "sum_count") =>
            /\ lastDone'.resp.auction = proc[p].link.auction
            /\ lastDone'.late => /\ lastDone'.resp.auction.status = "finalized"
                                 /\ IsFinalized(proc[p].linkId)
       /\ (proc[p].kind = "bid" /\ proc[p].late /\ proc'[p].pc = "idle") =>
            IsFinalized(proc[p].linkId)]_vars

\* C20: the summary response is computed from the stored bid collection at
\* the time of its reads: count is the number of stored bids, highest_cents the
\* maximum amount_cents over the bids stored when the highest bid is read (0 if
\* none), and recent holds at most 10 bids, newest first: the newest ones of
\* the bids stored when the list is read.
C20_SummaryFromStoredBids ==
  (lastDone.kind = "summary" /\ lastDone.resp.code = "OK") =>
    LET bs == bids[lastDone.linkId]
        r == lastDone.resp
        Docs(k) == {bs[i] : i \in 1..k}
        Listed == {r.recent[i] : i \in 1..Len(r.recent)}
    IN /\ r.count = Len(bs)
       /\ \E k \in 0..Len(bs) :
            r.highest_cents = IF k = 0 THEN 0 ELSE MaxAmountOf(SubSeq(bs, 1, k))
       /\ Len(r.recent) <= RecentLimit
       /\ \A i \in 1..(Len(r.recent) - 1) : r.recent[i].createdAt > r.recent[i + 1].createdAt
       /\ \E k \in 0..Len(bs) :
            /\ Len(r.recent) = IF k < RecentLimit THEN k ELSE RecentLimit
            /\ Listed \subseteq Docs(k)
            /\ \A b \in Docs(k) \ Listed : \A c \in Listed : b.createdAt < c.createdAt

\* a summary over more bids than it lists, the newest of which was not stored last
C20_Witness ==
  /\ lastDone.kind = "summary" /\ lastDone.resp.code = "OK"
  /\ lastDone.resp.count > RecentLimit
  /\ Len(lastDone.resp.recent) = RecentLimit
  /\ lastDone.resp.recent[1].bidId # lastDone.resp.count
  /\ lastDone.resp.highest_cents = bids[lastDone.linkId][lastDone.resp.count].amount_cents

\* C16: every bid rejected with 'auction ended' returns the auction record in
\* its final state: status 'finalized' and the winner as stored, both when the
\* request ran the finalization and when it found the auction finalized.
C16_EndedReturnsFinalState ==
  (lastDone.kind = "bid" /\ lastDone.resp.code = "AUCTION_ENDED") =>
    /\ lastDone.resp.auction.status = "finalized"
    /\ lastDone.resp.auction = links[lastDone.linkId].auction

\* 'auction ended' was answered with the winner of the auction
C16_Witness ==
  /\ lastDone.kind = "bid" /\ lastDone.resp.code = "AUCTION_ENDED"
  /\ lastDone.resp.auction.status = "finalized"
  /\ lastDone.resp.auction.winner # NoWinner
  /\ FollowUpLinks # {}

\* C17: bid placement reports the first failing precondition in the order link
\* exists, auction enabled, auction not past close, amount >= minimum: an
\* unknown linkId gives 'link not found', a link without auction 'auction not
\* enabled', a request arriving at or after endsAt 'auction ended' whatever its
\* amount, and only then is the amount judged; no bid is persisted on an error.
C17_PreconditionOrder ==
  [][lastDone'.kind = "bid" =>
       LET d == lastDone'
           l == d.linkId
       IN /\ ~Exists(l) => d.resp.code = "NOT_FOUND"
          /\ (Exists(l) /\ ~links[l].auction.enabled) => d.resp.code = "AUCTION_NOT_ENABLED"
          /\ (Exists(l) /\ links[l].auction.enabled /\ d.late) => d.resp.code = "AUCTION_ENDED"
          /\ (Exists(l) /\ links[l].auction.enabled /\ ~d.late) =>
               d.resp.code \in {"BID_TOO_LOW", "OK"}
          /\ d.resp.code # "OK" => bids' = bids]_vars

\* a bid below the minimum arrived after the close and was answered 'auction ended'
C17_Witness ==
  /\ lastDone.kind = "bid" /\ lastDone.late
  /\ lastDone.resp.code = "AUCTION_ENDED"
  /\ bids[lastDone.linkId] # <<>>
  /\ lastDone.amount > 0
  /\ lastDone.amount < ContractMin(links[lastDone.linkId].auction, bids[lastDone.linkId])

\* C18: stored bids are append-only: a step leaves every collection as it is
\* or appends the document of the bid request it answers with success; and a
\* step of a summary request changes no bid, and a link document only inside
\* finalizeAuction.
C18_BidsAppendOnly ==
  [][/\ \A l \in LinkIds :
          \/ bids'[l] = bids[l]
          \/ /\ lastDone'.kind = "bid" /\ lastDone'.linkId = l /\ lastDone'.resp.code = "OK"
             /\ bids'[l] = Append(bids[l], lastDone'.resp.bid)
     /\ \A p \in Procs :
          (proc'[p] # proc[p] /\ "summary" \in {proc[p].kind, proc'[p].kind}) =>
            /\ bids' = bids
            /\ links' # links => proc[p].pc \in {"fin_commit", "fin_mint"}
            /\ emailsSent' # emailsSent => proc[p].pc = "fin_email"]_vars

\* a summary over a finalized auction reports the two bids stored
C18_Witness ==
  /\ lastDone.kind = "summary" /\ lastDone.resp.code = "OK"
  /\ lastDone.resp.count = 2
  /\ IsFinalized(lastDone.linkId)
  /\ FollowUpLinks # {}

\* C19: a stored link document is changed only by the update of
\* finalizeAuction, and only in auction.status, auction.winner and active; no
\* step of bid placement, summary or checkout changes it otherwise, and no
\* document is deleted.
C19_LinkChangedOnlyByFinalization ==
  [][/\ Len(links') >= Len(links)
     /\ \A l \in LinkIds : Exists(l) =>
          \/ links'[l] = links[l]
          \/ /\ \E p \in Procs : /\ proc[p].pc = "fin_commit" /\ proc[p].linkId = l
                                  /\ proc'[p] # proc[p]
             /\ links[l] = [links'[l] EXCEPT !.auction.status = links[l].auction.status,
                                             !.auction.winner = links[l].auction.winner,
                                             !.active = links[l].active]]_vars

\* checkout went through the follow-up link of a finalized auction
C19_Witness ==
  /\ lastDone.kind = "checkout" /\ lastDone.resp.code = "OK"
  /\ lastDone.linkId \in FollowUpLinks
  /\ IsFinalized(1) /\ links[1].active = "false"

\* C21: every link created with auction.enabled is stored with expiresAt equal
\* to auction.endsAt whatever expiresAt the request carried, with status
\* 'active' and no winner; a request with auction.enabled and no endsAt is
\* refused and stores nothing; and a stored auction link keeps expiresAt equal
\* to auction.endsAt.
C21_AuctionLinkCreation ==
  [][/\ \A in \in LinkInputs : (in.enabled /\ CreateLink(in)) =>
          IF in.endsAt = Null \/ lastDone'.resp.code = "DIGITAL_FETCH_FAILED"
            THEN /\ links' = links /\ bids' = bids
                 /\ lastDone'.kind = "link"
                 /\ lastDone'.resp.code \in {"ENDSAT_REQUIRED", "DIGITAL_FETCH_FAILED"}
            ELSE /\ Len(links') = Len(links) + 1
                 /\ lastDone'.resp.code = "OK"
                 /\ links'[Len(links')].expiresAt = in.endsAt
                 /\ links'[Len(links')].auction.enabled
                 /\ links'[Len(links')].auction.endsAt = in.endsAt
                 /\ links'[Len(links')].auction.status = "active"
                 /\ links'[Len(links')].auction.winner = NoWinner
     /\ \A l \in 1..Len(links') :
          links'[l].auction.enabled => links'[l].expiresAt = links'[l].auction.endsAt]_vars

\* an auction link was created and its response carries the active auction
C21_Witness ==
  /\ lastDone.kind = "link" /\ lastDone.resp.code = "OK"
  /\ lastDone.resp.auction.enabled /\ lastDone.resp.auction.status = "active"
  /\ links[lastDone.linkId].expiresAt = links[lastDone.linkId].auction.endsAt

\* C22: every entry point that can observe an ended but unfinalized auction
\* (bid intake, summary fetch, checkout-session creation) finalizes it: once
\* such a request has been answered, the stored status is 'finalized'.
C22_EveryEntryPointFinalizes ==
  (/\ lastDone.kind \in {"bid", "summary", "checkout"}
   /\ Exists(lastDone.linkId)
   /\ links[lastDone.linkId].auction.enabled
   /\ IF lastDone.kind = "checkout"
        THEN links[lastDone.linkId].auction.endsAt <= now
        ELSE lastDone.late) =>
     IsFinalized(lastDone.linkId)

\* C23: finalization writes auction.status = 'finalized', auction.winner and
\* active = false in one update of the link document: in every state reached,
\* under any interleaving of finalizers, a link is finalized exactly when its
\* active flag is false, a winner is recorded only on a finalized link, and a
\* step that changes one of the three fields leaves all three as one
\* finalization writes them.
C23_FinalizedWrittenTogether ==
  [][\A l \in LinkIds : (l <= Len(links')) =>
        /\ (links'[l].auction.status = "finalized") <=> (links'[l].active = "false")
        /\ (links'[l].auction.winner # NoWinner) => (links'[l].auction.status = "finalized")
        /\ (/\ Exists(l)
            /\ \/ links'[l].auction.status # links[l].auction.status
               \/ links'[l].auction.winner # links[l].auction.winner
               \/ links'[l].active # links[l].active) =>
              /\ links'[l].auction.status = "finalized"
              /\ links'[l].active = "false"
              /\ \E p \in Procs : /\ proc[p].pc = "fin_commit" /\ proc[p].linkId = l
                                  /\ links'[l].auction.winner = proc[p].winner]_vars

\* a finalized, inactive link over which a second finalizer is about to commit
C23_Witness ==
  \E l \in AuctionLinks :
    /\ IsFinalized(l) /\ links[l].active = "false"
    /\ \E p \in Procs : proc[p].pc = "fin_commit" /\ proc[p].linkId = l

\* C25: no bid document is stored once the auction's stored status is
\* 'finalized': a step that adds a bid to a link finds the link not finalized.
C25_NoBidAfterFinalized ==
  [][\A l \in LinkIds : (Exists(l) /\ Len(bids'[l]) > Len(bids[l])) => ~IsFinalized(l)]_vars

\* C26: whenever an auction is finalized with a winner recorded, winner.bidId
\* names a stored bid of the link and winner.amount_cents is the largest
\* amount_cents over the stored bids of the link.
C26_WinnerIsStoredMaximum ==
  \A l \in AuctionLinks :
    (IsFinalized(l) /\ links[l].auction.winner # NoWinner) =>
      /\ \E i \in 1..Len(bids[l]) : bids[l][i].bidId = links[l].auction.winner.bidId
      /\ \A i \in 1..Len(bids[l]) : bids[l][i].amount_cents <= links[l].auction.winner.amount_cents

\* C27: once status 'finalized' is stored on a link, no request enters the
\* finalization of that link any more, and only the finalizers already past
\* their read of the link (those that read it before the commit) still write to
\* the links or send a winner email: a bid or summary request that starts
\* afterwards creates no follow-up link, sends no email and writes no link.
C27_NoSideEffectsAfterCommit ==
  [][\A l \in AuctionLinks : IsFinalized(l) =>
        /\ \A p \in Procs :
             (proc'[p].pc \in FinPcs /\ proc'[p].linkId = l) =>
               (proc[p].pc \in FinPcs /\ proc[p].linkId = l)
        /\ (links' # links \/ emailsSent' # emailsSent) =>
             \E p \in Procs : /\ proc[p].pc \in FinPcs /\ proc[p].linkId = l
                               /\ proc'[p] # proc[p]]_vars

\* a bid request that started on a finalized link was answered 'auction ended'
\* without entering finalizeAuction's second half (its amount is still set)
C27_Witness ==
  /\ lastDone.kind = "bid" /\ lastDone.late /\ lastDone.amount > 0
  /\ lastDone.resp.code = "AUCTION_ENDED"
  /\ lastDone.resp.auction.status = "finalized"
  /\ IsFinalized(lastDone.linkId)

\* C28: within one finalization the auction state is stored before the
\* follow-up link is written and the winner email is sent only after the
\* follow-up link it points to is stored: a finalizer about to write the
\* follow-up link or to send the email works on a link stored as finalized,
\* the link an email is about to name exists, every email sent names an
\* existing follow-up link, and follow-up links exist only beside an auction
\* stored as finalized.
C28_FinalizationOrder ==
  /\ \A p \in Procs :
       /\ proc[p].pc \in {"fin_mint", "fin_email"} => IsFinalized(proc[p].linkId)
       /\ proc[p].pc = "fin_email" => proc[p].newLinkId \in FollowUpLinks
  /\ \A e \in emailsSent : e.linkId \in FollowUpLinks
  /\ FollowUpLinks # {} => \E l \in AuctionLinks : IsFinalized(l)

\* an email was sent for one follow-up link while a second finalizer is about
\* to send its own
C28_Witness ==
  /\ emailsSent # {}
  /\ \E p \in Procs : proc[p].pc = "fin_email" /\ proc[p].newLinkId \in FollowUpLinks

C24_FollowUpDigitalSnapshot ==
  [][\A p \in Procs : (FinMint(p) /\ Len(links') > Len(links)) =>
        LET auctionLink == links[proc[p].linkId]
            minted == links'[Len(links')]
        IN /\ minted.productId = auctionLink.productId
           /\ minted.sellerId = auctionLink.sellerId
           /\ auctionLink.digitalDownload.present =>
                minted.digitalDownload = auctionLink.digitalDownload
           /\ ~auctionLink.digitalDownload.present =>
                minted.digitalDownload = proc[p].product.digitalDownload
           /\ minted.hasDigital <=>
                /\ minted.digitalDownload.present
                /\ \/ minted.digitalDownload.storagePath # ""
                   \/ minted.digitalDownload.contentUrl # ""]_vars

\* a follow-up link carries the auction link's own file although the product
\* has a different one
C24_Witness ==
  \E k \in FollowUpLinks :
    /\ links[1].digitalDownload.present /\ links[k].hasDigital
    /\ links[k].digitalDownload = links[1].digitalDownload
    /\ products[links[1].productId].digitalDownload.present
    /\ products[links[1].productId].digitalDownload # links[1].digitalDownload

\* C30: a magic-link token is accepted at most once: under any interleaving
\* of verify requests for one token, at most one of them marks the seller
\* verified and redirects; the others are rejected.
C30_TokenAcceptedOnce == \A token \in Tokens : accepted[token] <= 1

====
